---- MODULE Spec2Model ----
(***************************************************************************)
(* State-machine model of 09_create_sbt.hpp: the GPU buffer (Buffer::init),*)
(* the acceleration-structure build (AccelStruct::init), the shader groups *)
(* (addShader / prepareShaders), the ray-tracing pipeline and the shader   *)
(* binding table (createShaderBindingTable), as run by initVulkan.         *)
(*                                                                         *)
(* The program is single-threaded.  Its position is a call stack of        *)
(* frames [fn, pc, a, l] (function, label, arguments, locals); every       *)
(* action is one statement block of the source, named after the function   *)
(* and the block.  The Vulkan device is the environment: its answers       *)
(* (memory requirements, device addresses, build sizes, results, handle    *)
(* size and alignment) are drawn from bounded sets.                        *)
(***************************************************************************)
EXTENDS Integers, Sequences, FiniteSets, TLC

VARIABLES stack, aborted, dev, buffers, accels, queue, images, shaders,
          app, pipeline, sbt, lastAdd

vars == <<stack, aborted, dev, buffers, accels, queue, images, shaders,
          app, pipeline, sbt, lastAdd>>

----------------------------------------------------------------------------
(* Bounds of the model *)

\* largest shader-group handle size the modelled devices report
MaxHandleSize == 3
\* largest shader-group handle alignment the modelled devices report
MaxHandleAlignment == 4
\* largest number of swapchain images
MaxImages == 2
\* number of values next to each end of the 32-bit range tried for the
\* handle size and the alignment in the arithmetic specification
MaxEdge == 3
\* largest number of addShader calls made in the addShader specification
MaxAddShaderCalls == 2
\* largest size requested in the Buffer::init specification
MaxBufferSize == 4

----------------------------------------------------------------------------
(* uint32_t arithmetic.  A 32-bit unsigned value is the pair <<hi, lo>> of  *)
(* its two 16-bit halves; a "wide" value is such a pair whose hi half is    *)
(* not reduced, used for exact sums and for the remainder of a division.    *)

Base == 65536

U32(n) == <<n \div Base, n % Base>>
U32Zero == <<0, 0>>
U32One == <<0, 1>>
\* value of a pair as a number (for values that fit the checker's integers)
ToNat(x) == x[1] * Base + x[2]

WLess(x, y) == x[1] < y[1] \/ (x[1] = y[1] /\ x[2] < y[2])
WLeq(x, y) == ~WLess(y, x)
\* exact sum
WAdd(x, y) ==
  LET l == x[2] + y[2]
  IN  <<x[1] + y[1] + (l \div Base), l % Base>>
\* exact difference, for x >= y
WSub(x, y) ==
  LET l == Base + x[2] - y[2]
  IN  <<x[1] - y[1] - (IF l < Base THEN 1 ELSE 0), l % Base>>
\* reduction modulo 2^32
Trunc(w) == <<w[1] % Base, w[2]>>

U32Add(x, y) == Trunc(WAdd(x, y))
U32Sub(x, y) ==
  LET l == Base + x[2] - y[2]
      h == Base + x[1] - y[1] - (IF l < Base THEN 1 ELSE 0)
  IN  <<h % Base, l % Base>>

\* exact product of two 16-bit halves, as a wide value
WMul16(a, b) ==
  LET p0 == a * (b % 256)
      p1 == a * (b \div 256)
      l  == p0 + (p1 % 256) * 256
  IN  <<(p1 \div 256) + (l \div Base), l % Base>>
U32Mul(x, y) ==
  LET p == WMul16(x[2], y[2])
      c == (WMul16(x[1], y[2])[2] + WMul16(x[2], y[1])[2]) % Base
  IN  <<(p[1] + c) % Base, p[2]>>

\* x \div 2, a number below 2^31
U32Half(x) == x[1] * (Base \div 2) + (x[2] \div 2)
\* <<quotient, remainder>> of x divided by y, for y # 0.  A divisor of 2^31
\* or more goes into x at most once; a smaller one divides x \div 2 and the
\* low bit of x is brought down afterwards.
U32DivRem(x, y) ==
  IF y[1] >= Base \div 2
  THEN IF WLess(x, y) THEN <<U32Zero, x>> ELSE <<U32One, WSub(x, y)>>
  ELSE LET d   == ToNat(y)
           b   == x[2] % 2
           q1  == U32Half(x) \div d
           r1  == U32Half(x) % d
           up  == r1 >= d - r1 - b
           rem == IF up THEN r1 - (d - r1 - b) ELSE 2 * r1 + b
       IN  << <<q1 \div (Base \div 2),
                (q1 % (Base \div 2)) * 2 + (IF up THEN 1 ELSE 0)>>,
              U32(rem) >>
U32Div(x, y) == U32DivRem(x, y)[1]
U32Rem(x, y) == U32DivRem(x, y)[2]

----------------------------------------------------------------------------
(* Host data: the byte images of the arrays and records the program uploads *)

SizeofVertex == 12
SizeofUint32 == 4
SizeofInstance == 64

\* little-endian bytes of a 32-bit value below 2^31
U32LE(n) ==
  <<n % 256, (n \div 256) % 256, (n \div 65536) % 256, (n \div 16777216) % 256>>
\* little-endian bytes of a 64-bit value below 2^31
U64LE(n) == U32LE(n) \o <<0, 0, 0, 0>>
\* IEEE-754 single precision, little endian, of the three values used
F32(v) ==
  CASE v = 0  -> <<0, 0, 0, 0>>
    [] v = 1  -> <<0, 0, 128, 63>>
    [] v = -1 -> <<0, 0, 128, 191>>
Vec3(a, b, c) == F32(a) \o F32(b) \o F32(c)
Row4(a, b, c, d) == F32(a) \o F32(b) \o F32(c) \o F32(d)

\* std::vector<Vertex> vertices
vertices == Vec3(1, 1, 0) \o Vec3(-1, 1, 0) \o Vec3(0, -1, 0)
\* std::vector<uint32_t> indices
indices == U32LE(0) \o U32LE(1) \o U32LE(2)
\* number of elements of either array
VertexCount == Len(vertices) \div SizeofVertex
IndexCount == Len(indices) \div SizeofUint32

\* vk::AccelerationStructureInstanceKHR as createTopLevelAS fills it in:
\* transform, instanceCustomIndex:24 | mask:8, sbtRecordOffset:24 | flags:8,
\* accelerationStructureReference
AccelInstance(reference) ==
  Row4(1, 0, 0, 0) \o Row4(0, 1, 0, 0) \o Row4(0, 0, 1, 0)
    \o <<0, 0, 0, 255>> \o <<0, 0, 0, 1>> \o U64LE(reference)
\* the reference field read back from the bytes of an instance record
InstanceReference(bytes) ==
  bytes[57] + 256 * bytes[58] + 65536 * bytes[59] + 16777216 * bytes[60]

\* a host pointer: null, or the address of byte `off` of the host bytes `mem`
NullPtr == [null |-> TRUE, mem |-> <<>>, off |-> 0]
Ptr(mem, off) == [null |-> FALSE, mem |-> mem, off |-> off]
\* the n bytes memcpy reads from a host pointer
HostRead(p, n) == SubSeq(p.mem, p.off + 1, p.off + n)

----------------------------------------------------------------------------
(* The objects of the program *)

\* Buffer objects: members of Application and of its AccelStructs, and the
\* locals of createBottomLevelAS, AccelStruct::init and createTopLevelAS
MemberBuffers ==
  {"bottomAccel.buffer", "topAccel.buffer", "raygenSBT", "missSBT", "hitSBT"}
LocalBuffers ==
  {"vertexBuffer", "indexBuffer", "instanceBuffer",
   "bottomAccel.scratchBuffer", "topAccel.scratchBuffer"}
BufferNames == MemberBuffers \cup LocalBuffers
AccelNames == {"bottomAccel", "topAccel"}
StorageOf(o) == IF o = "bottomAccel" THEN "bottomAccel.buffer" ELSE "topAccel.buffer"
ScratchOf(o) ==
  IF o = "bottomAccel" THEN "bottomAccel.scratchBuffer" ELSE "topAccel.scratchBuffer"

\* struct Buffer with the facts the device keeps about its vk::Buffer and
\* vk::DeviceMemory.  scope: "none" (not constructed), "live", "destroyed"
EmptyBuffer(scope) ==
  [scope |-> scope, buffer |-> FALSE, memory |-> FALSE, address |-> 0,
   size |-> 0, usage |-> {}, memSize |-> 0, memFlags |-> {}, memoryType |-> 0,
   bound |-> FALSE, bindOffset |-> 0, mapped |-> FALSE, mapSize |-> 0,
   contents |-> <<>>]

\* struct AccelStruct with what the device keeps about the structure
EmptyAccel ==
  [accel |-> FALSE, type |-> "none", size |-> 0, storage |-> "none",
   deviceAddress |-> 0, sizes |-> [queried |-> FALSE, as |-> 0, scratch |-> 0],
   built |-> FALSE, inputsLive |-> FALSE, scratchData |-> 0, geometry |-> <<>>]

\* vk::RayTracingShaderGroupCreateInfoKHR, value-initialised
ShaderUnused == -1
EmptyGroup ==
  [type |-> "eGeneral", generalShader |-> 0, closestHitShader |-> 0,
   anyHitShader |-> 0, intersectionShader |-> 0]
EmptyStage == [stage |-> "none", module |-> "none", pName |-> "none"]

----------------------------------------------------------------------------
(* The device (environment) *)

\* memory types of the device: the property flags of each
MemoryTypes ==
  << {"eDeviceLocal"},
     {"eHostVisible", "eHostCoherent"},
     {"eDeviceLocal", "eHostVisible", "eHostCoherent"} >>
\* granularities at which a device rounds a buffer's memory requirement up
MemGranules == {1, 16}
RoundUp(n, g) == ((n + g - 1) \div g) * g
\* vkGetBufferMemoryRequirements: size at least that of the buffer
GetBufferMemoryRequirements(size) ==
  [size |-> RoundUp(size, dev.memGranule),
   memoryTypeBits |-> DOMAIN MemoryTypes]
\* vkGetAccelerationStructureBuildSizesKHR: the answers a device may give
BuildSizesChoices(type, primitiveCount) ==
  { [accelerationStructureSize |-> 64 * k * primitiveCount,
     buildScratchSize |-> 32 * k * primitiveCount
                            + (IF type = "eTopLevel" THEN 16 ELSE 0)]
      : k \in 1..2 }
\* results a create or query call may return
Results == {"eSuccess", "eErrorOutOfHostMemory"}
\* shader-group handle size and alignment the device reports, as uint32_t
DeviceRtProps ==
  { [shaderGroupHandleSize |-> U32(h), shaderGroupHandleAlignment |-> U32(a)]
      : h \in 1..MaxHandleSize, a \in 1..MaxHandleAlignment }
\* byte k (from 0) of the device's handle of shader group g (from 0)
HandleByte(g, k) == 16 * (g + 1) + k
\* vkGetRayTracingShaderGroupHandlesKHR into a zeroed store of dataSize
\* bytes: the handles of groups firstGroup.. are written one after the other,
\* each handleSize bytes long; the store keeps its bytes after them
WriteGroupHandles(store, firstGroup, groupCount, handleSize) ==
  [k \in 1..Len(store) |->
     IF k <= groupCount * handleSize
     THEN HandleByte(firstGroup + ((k - 1) \div handleSize), (k - 1) % handleSize)
     ELSE store[k]]

----------------------------------------------------------------------------
(* The call stack *)

Frame(fn, pc, a, l) == [fn |-> fn, pc |-> pc, a |-> a, l |-> l]
None == [obj |-> "none"]
Depth == Len(stack)
Top == stack[Depth]
\* the program is at label pc of function fn
At(fn, pc) == ~aborted /\ stack # <<>> /\ Top.fn = fn /\ Top.pc = pc
\* the stack with the running frame moved to label pc, its locals set to l
Moved(pc, l) == [stack EXCEPT ![Depth] = [@ EXCEPT !.pc = pc, !.l = l]]
Goto(pc) == stack' = Moved(pc, Top.l)
\* the running frame continues at label pc after the call of `frame`
Call(pc, l, frame) == stack' = Append(Moved(pc, l), frame)
Return == stack' = SubSeq(stack, 1, Depth - 1)
\* some frame of the stack runs function fn for object obj
Running(fn, obj) ==
  \E i \in DOMAIN stack : stack[i].fn = fn /\ stack[i].a.obj = obj

----------------------------------------------------------------------------
(* struct Buffer *)

DeviceAddressUsage == "eShaderDeviceAddress"

\* vkutils::getMemoryType: the first memory type allowed by the requirements
\* whose property flags include the requested ones (0: none)
getMemoryType(memoryReq, memoryProperty) ==
  LET ok == { i \in memoryReq.memoryTypeBits : memoryProperty \subseteq MemoryTypes[i] }
  IN  IF ok = {} THEN 0 ELSE CHOOSE i \in ok : \A j \in ok : i <= j

\* Buffer::init copying the data before it binds the memory
Buffer_init_next_copyFirst(pc, data) ==
  CASE pc = "create"   -> "allocate"
    [] pc = "allocate" -> IF data.null THEN "bind" ELSE "map"
    [] pc = "map"      -> "memcpy"
    [] pc = "memcpy"   -> "unmap"
    [] pc = "unmap"    -> "bind"
    [] pc = "bind"     -> "address"
\* the order of the statement blocks of Buffer::init
Buffer_init_next(pc, data) ==
  CASE pc = "create"   -> "allocate"
    [] pc = "allocate" -> "bind"
    [] pc = "bind"     -> IF data.null THEN "address" ELSE "map"
    [] pc = "map"      -> "memcpy"
    [] pc = "memcpy"   -> "unmap"
    [] pc = "unmap"    -> "address"

\* Buffer::init querying the address whatever the usage
Buffer_init_getAddress_always(usage, old, deviceAddress) == deviceAddress
\* the address Buffer::init stores: queried from the device only for a
\* buffer with device-address usage, else left as it was
Buffer_init_getAddress(usage, old, deviceAddress) ==
  IF DeviceAddressUsage \in usage THEN deviceAddress ELSE old

\* the call obj.init(physicalDevice, device, size, usage, memoryProperty, data)
Buffer_init(obj, size, usage, memoryProperty, data) ==
  Frame("Buffer::init", "create",
        [obj |-> obj, size |-> size, usage |-> usage,
         memoryProperty |-> memoryProperty, data |-> data],
        None)

\* device.createBufferUnique
Buffer_init_create ==
  /\ At("Buffer::init", "create")
  /\ buffers' = [buffers EXCEPT ![Top.a.obj] =
                   [@ EXCEPT !.buffer = TRUE, !.size = Top.a.size, !.usage = Top.a.usage]]
  /\ Goto(Buffer_init_next("create", Top.a.data))
  /\ UNCHANGED <<aborted, dev, accels, queue, images, shaders, app, pipeline, sbt, lastAdd>>

\* getBufferMemoryRequirements, getMemoryType, allocateMemoryUnique
Buffer_init_allocate ==
  /\ At("Buffer::init", "allocate")
  /\ LET memoryReq == GetBufferMemoryRequirements(buffers[Top.a.obj].size)
         allocateFlags == IF DeviceAddressUsage \in Top.a.usage
                          THEN {"eDeviceAddress"} ELSE {}
         memoryType == getMemoryType(memoryReq, Top.a.memoryProperty)
     IN  buffers' = [buffers EXCEPT ![Top.a.obj] =
                       [@ EXCEPT !.memory = TRUE, !.memSize = memoryReq.size,
                                 !.memFlags = allocateFlags, !.memoryType = memoryType]]
  /\ Goto(Buffer_init_next("allocate", Top.a.data))
  /\ UNCHANGED <<aborted, dev, accels, queue, images, shaders, app, pipeline, sbt, lastAdd>>

\* device.bindBufferMemory(*buffer, *memory, 0)
Buffer_init_bind ==
  /\ At("Buffer::init", "bind")
  /\ buffers' = [buffers EXCEPT ![Top.a.obj] = [@ EXCEPT !.bound = TRUE, !.bindOffset = 0]]
  /\ Goto(Buffer_init_next("bind", Top.a.data))
  /\ UNCHANGED <<aborted, dev, accels, queue, images, shaders, app, pipeline, sbt, lastAdd>>

\* device.mapMemory(*memory, 0, size)
Buffer_init_map ==
  /\ At("Buffer::init", "map")
  /\ buffers' = [buffers EXCEPT ![Top.a.obj] = [@ EXCEPT !.mapped = TRUE, !.mapSize = Top.a.size]]
  /\ Goto(Buffer_init_next("map", Top.a.data))
  /\ UNCHANGED <<aborted, dev, accels, queue, images, shaders, app, pipeline, sbt, lastAdd>>

\* memcpy(mappedPtr, data, size)
Buffer_init_memcpy ==
  /\ At("Buffer::init", "memcpy")
  /\ buffers' = [buffers EXCEPT ![Top.a.obj] =
                   [@ EXCEPT !.contents = HostRead(Top.a.data, Top.a.size)]]
  /\ Goto(Buffer_init_next("memcpy", Top.a.data))
  /\ UNCHANGED <<aborted, dev, accels, queue, images, shaders, app, pipeline, sbt, lastAdd>>

\* device.unmapMemory(*memory)
Buffer_init_unmap ==
  /\ At("Buffer::init", "unmap")
  /\ buffers' = [buffers EXCEPT ![Top.a.obj] = [@ EXCEPT !.mapped = FALSE, !.mapSize = 0]]
  /\ Goto(Buffer_init_next("unmap", Top.a.data))
  /\ UNCHANGED <<aborted, dev, accels, queue, images, shaders, app, pipeline, sbt, lastAdd>>

\* getBufferAddressKHR for a buffer with device-address usage; the device
\* hands out the next free address, which is never 0.  Then init returns.
Buffer_init_address ==
  /\ At("Buffer::init", "address")
  /\ LET b == buffers[Top.a.obj]
         queried == DeviceAddressUsage \in Top.a.usage
     IN  /\ buffers' = [buffers EXCEPT ![Top.a.obj].address =
                          Buffer_init_getAddress(Top.a.usage, b.address, dev.nextAddress)]
         /\ dev' = IF queried
                   THEN [dev EXCEPT !.nextAddress = @ + b.memSize]
                   ELSE dev
  /\ Return
  /\ UNCHANGED <<aborted, accels, queue, images, shaders, app, pipeline, sbt, lastAdd>>

----------------------------------------------------------------------------
(* vkutils::oneTimeSubmit and the queue *)

\* the buffers a device address belongs to, among those that still exist
LiveAt(address) ==
  { b \in BufferNames : /\ buffers[b].scope = "live" /\ buffers[b].bound
                        /\ buffers[b].address = address }
\* the device addresses a build command makes the device read or write
BuildInputs(c) ==
  {c.scratchData} \cup
    (IF c.geometry.geometryType = "eTriangles"
     THEN {c.geometry.vertexData, c.geometry.indexData}
     ELSE {c.geometry.instanceData})
\* the effect of a finished buildAccelerationStructuresKHR on its structure
Built(a, c) ==
  [a EXCEPT !.built = TRUE,
            !.inputsLive = \A x \in BuildInputs(c) : LiveAt(x) # {},
            !.scratchData = c.scratchData,
            !.geometry = c.geometry]
\* the state of the device objects once the commands cmds have run
ImagesAfter(cmds) ==
  [i \in DOMAIN images |->
     IF \E k \in DOMAIN cmds : cmds[k].op = "setImageLayout" /\ cmds[k].image = i
     THEN [images[i] EXCEPT !.layout = "ePresentSrcKHR"]
     ELSE images[i]]
AccelsAfter(cmds) ==
  [o \in AccelNames |->
     IF \E k \in DOMAIN cmds : cmds[k].op = "buildAccelerationStructures" /\ cmds[k].dst = o
     THEN Built(accels[o],
                cmds[CHOOSE k \in DOMAIN cmds :
                       cmds[k].op = "buildAccelerationStructures" /\ cmds[k].dst = o])
     ELSE accels[o]]
\* all commands of the submissions subs, in order
RECURSIVE Commands(_)
Commands(subs) ==
  IF subs = <<>> THEN <<>> ELSE Head(subs).cmds \o Commands(Tail(subs))

\* the call oneTimeSubmit(device, commandPool, queue, func), func recording cmds
oneTimeSubmit(who, cmds) ==
  Frame("oneTimeSubmit", "record", [obj |-> who, cmds |-> cmds], [commandBuffer |-> <<>>])

\* allocate a command buffer, begin it, run func on it, end it
oneTimeSubmit_record ==
  /\ At("oneTimeSubmit", "record")
  /\ stack' = Moved("submit", [commandBuffer |-> Top.a.cmds])
  /\ UNCHANGED <<aborted, dev, buffers, accels, queue, images, shaders, app, pipeline,
                 sbt, lastAdd>>

\* queue.submit
oneTimeSubmit_submit ==
  /\ At("oneTimeSubmit", "submit")
  /\ queue' = [queue EXCEPT !.pending =
                 Append(@, [by |-> Top.a.obj, cmds |-> Top.l.commandBuffer])]
  /\ Goto("waitIdle")
  /\ UNCHANGED <<aborted, dev, buffers, accels, images, shaders, app, pipeline, sbt, lastAdd>>

\* queue.waitIdle: everything submitted has run when it returns; the
\* command buffer is released and oneTimeSubmit returns
oneTimeSubmit_waitIdle ==
  /\ At("oneTimeSubmit", "waitIdle")
  /\ images' = ImagesAfter(Commands(queue.pending))
  /\ accels' = AccelsAfter(Commands(queue.pending))
  /\ queue' = [pending |-> <<>>, completed |-> queue.completed \o queue.pending]
  /\ Return
  /\ UNCHANGED <<aborted, dev, buffers, shaders, app, pipeline, sbt, lastAdd>>

----------------------------------------------------------------------------
(* struct AccelStruct *)

\* AccelStruct::init storing the address before it builds
AccelStruct_init_next_addressFirst(pc) ==
  CASE pc = "sizes"    -> "storage"
    [] pc = "storage"  -> "createAS"
    [] pc = "createAS" -> "scratch"
    [] pc = "scratch"  -> "address"
    [] pc = "address"  -> "build"
    [] pc = "build"    -> "return"
\* the order of the statement blocks of AccelStruct::init
AccelStruct_init_next(pc) ==
  CASE pc = "sizes"    -> "storage"
    [] pc = "storage"  -> "createAS"
    [] pc = "createAS" -> "scratch"
    [] pc = "scratch"  -> "build"
    [] pc = "build"    -> "address"
    [] pc = "address"  -> "return"

\* the call obj.init(physicalDevice, device, commandPool, queue, type,
\* geometry, primitiveCount)
AccelStruct_init(obj, type, geometry, primitiveCount) ==
  Frame("AccelStruct::init", "sizes",
        [obj |-> obj, type |-> type, geometry |-> geometry,
         primitiveCount |-> primitiveCount],
        [buildSizes |-> [accelerationStructureSize |-> 0, buildScratchSize |-> 0]])

\* getAccelerationStructureBuildSizesKHR
AccelStruct_init_sizes ==
  /\ At("AccelStruct::init", "sizes")
  /\ \E s \in BuildSizesChoices(Top.a.type, Top.a.primitiveCount) :
       /\ stack' = Moved(AccelStruct_init_next("sizes"), [buildSizes |-> s])
       /\ accels' = [accels EXCEPT ![Top.a.obj].sizes =
                       [queried |-> TRUE, as |-> s.accelerationStructureSize,
                        scratch |-> s.buildScratchSize]]
  /\ UNCHANGED <<aborted, dev, buffers, queue, images, shaders, app, pipeline, sbt, lastAdd>>

\* buffer.init(..., accelerationStructureSize, eAccelerationStructureStorageKHR,
\*             eDeviceLocal)
AccelStruct_init_storage ==
  /\ At("AccelStruct::init", "storage")
  /\ Call(AccelStruct_init_next("storage"), Top.l,
          Buffer_init(StorageOf(Top.a.obj), Top.l.buildSizes.accelerationStructureSize,
                      {"eAccelerationStructureStorageKHR"}, {"eDeviceLocal"}, NullPtr))
  /\ UNCHANGED <<aborted, dev, buffers, accels, queue, images, shaders, app, pipeline,
                 sbt, lastAdd>>

\* createAccelerationStructureKHRUnique on the storage buffer; the device
\* gives the structure its address, which is never 0
AccelStruct_init_createAS ==
  /\ At("AccelStruct::init", "createAS")
  /\ accels' = [accels EXCEPT ![Top.a.obj] =
                  [@ EXCEPT !.accel = TRUE, !.type = Top.a.type,
                            !.size = Top.l.buildSizes.accelerationStructureSize,
                            !.storage = StorageOf(Top.a.obj),
                            !.deviceAddress = dev.nextAddress]]
  /\ dev' = [dev EXCEPT !.nextAddress = @ + Top.l.buildSizes.accelerationStructureSize]
  /\ Goto(AccelStruct_init_next("createAS"))
  /\ UNCHANGED <<aborted, buffers, queue, images, shaders, app, pipeline, sbt, lastAdd>>

\* Buffer scratchBuffer; scratchBuffer.init(..., buildScratchSize,
\*   eStorageBuffer | eShaderDeviceAddress, eDeviceLocal)
AccelStruct_init_scratch ==
  /\ At("AccelStruct::init", "scratch")
  /\ buffers' = [buffers EXCEPT ![ScratchOf(Top.a.obj)] = EmptyBuffer("live")]
  /\ Call(AccelStruct_init_next("scratch"), Top.l,
          Buffer_init(ScratchOf(Top.a.obj), Top.l.buildSizes.buildScratchSize,
                      {"eStorageBuffer", DeviceAddressUsage}, {"eDeviceLocal"}, NullPtr))
  /\ UNCHANGED <<aborted, dev, accels, queue, images, shaders, app, pipeline, sbt, lastAdd>>

\* the build submitted to the queue without waiting for it
AccelStruct_init_build_noWait ==
  /\ At("AccelStruct::init", "build")
  /\ queue' = [queue EXCEPT !.pending =
                 Append(@, [by |-> Top.a.obj,
                            cmds |-> << [op |-> "buildAccelerationStructures",
                                         dst |-> Top.a.obj, type |-> Top.a.type,
                                         geometry |-> Top.a.geometry,
                                         scratchData |-> buffers[ScratchOf(Top.a.obj)].address,
                                         primitiveCount |-> Top.a.primitiveCount,
                                         primitiveOffset |-> 0, firstVertex |-> 0,
                                         transformOffset |-> 0] >>])]
  /\ Goto("address")
  /\ UNCHANGED <<aborted, dev, buffers, accels, images, shaders, app, pipeline, sbt, lastAdd>>

\* the build command, with its destination, scratch address and build range,
\* handed to oneTimeSubmit
AccelStruct_init_build ==
  /\ At("AccelStruct::init", "build")
  /\ Call(AccelStruct_init_next("build"), Top.l,
          oneTimeSubmit(Top.a.obj,
            << [op |-> "buildAccelerationStructures", dst |-> Top.a.obj,
                type |-> Top.a.type, geometry |-> Top.a.geometry,
                scratchData |-> buffers[ScratchOf(Top.a.obj)].address,
                primitiveCount |-> Top.a.primitiveCount, primitiveOffset |-> 0,
                firstVertex |-> 0, transformOffset |-> 0] >>))
  /\ UNCHANGED <<aborted, dev, buffers, accels, queue, images, shaders, app, pipeline,
                 sbt, lastAdd>>

\* buffer.address = device.getAccelerationStructureAddressKHR(addressInfo)
AccelStruct_init_address ==
  /\ At("AccelStruct::init", "address")
  /\ buffers' = [buffers EXCEPT ![StorageOf(Top.a.obj)].address =
                   accels[Top.a.obj].deviceAddress]
  /\ Goto(AccelStruct_init_next("address"))
  /\ UNCHANGED <<aborted, dev, accels, queue, images, shaders, app, pipeline, sbt, lastAdd>>

\* init returning with the scratch buffer kept alive
AccelStruct_init_return_keepScratch ==
  /\ At("AccelStruct::init", "return")
  /\ Return
  /\ UNCHANGED <<aborted, dev, buffers, accels, queue, images, shaders, app, pipeline,
                 sbt, lastAdd>>

\* the end of init: scratchBuffer goes out of scope
AccelStruct_init_return ==
  /\ At("AccelStruct::init", "return")
  /\ buffers' = [buffers EXCEPT ![ScratchOf(Top.a.obj)].scope = "destroyed"]
  /\ Return
  /\ UNCHANGED <<aborted, dev, accels, queue, images, shaders, app, pipeline, sbt, lastAdd>>

----------------------------------------------------------------------------
(* class Application: run, initVulkan and the swapchain image views *)

\* the calls of initVulkan with the top-level build before the bottom-level one
InitVulkanCalls_topFirst ==
  << "createSwapchainImageViews", "createTopLevelAS", "createBottomLevelAS",
     "prepareShaders", "createDescriptorPool", "createDescSetLayout",
     "createDescriptorSet", "createRayTracingPipeline", "createShaderBindingTable" >>
\* the functions initVulkan calls once the device and the swapchain exist
InitVulkanCalls ==
  << "createSwapchainImageViews", "createBottomLevelAS", "createTopLevelAS",
     "prepareShaders", "createDescriptorPool", "createDescSetLayout",
     "createDescriptorSet", "createRayTracingPipeline", "createShaderBindingTable" >>
\* the first label of each
Entry(fn) ==
  CASE fn = "createSwapchainImageViews" -> "views"
    [] fn = "createBottomLevelAS"       -> "vertexBuffer"
    [] fn = "createTopLevelAS"          -> "instance"
    [] fn = "prepareShaders"            -> "resize"
    [] fn = "createRayTracingPipeline"  -> "layout"
    [] fn = "createShaderBindingTable"  -> "props"
    [] OTHER                            -> "body"
\* the locals of each, before they are set
Locals(fn) ==
  CASE fn = "createTopLevelAS"          -> [accelInstance |-> <<>>]
    [] fn = "prepareShaders"            -> [next |-> 1]
    [] fn = "createRayTracingPipeline"  -> [result |-> "none"]
    [] fn = "createShaderBindingTable"  ->
         [handleSize |-> U32Zero, handleAlignment |-> U32Zero, groupCount |-> U32Zero,
          sbtSize |-> U32Zero, shaderHandleStorage |-> <<>>, result |-> "none",
          query |-> [firstGroup |-> 0, groupCount |-> 0, dataSize |-> 0]]
    [] OTHER                            -> None

run_initWindow ==
  /\ At("run", "initWindow")
  /\ app' = [app EXCEPT !.window = TRUE]
  /\ Goto("initVulkan")
  /\ UNCHANGED <<aborted, dev, buffers, accels, queue, images, shaders, pipeline, sbt, lastAdd>>

run_initVulkan ==
  /\ At("run", "initVulkan")
  /\ Call("loop", Top.l, Frame("initVulkan", "setup", None, [next |-> 1]))
  /\ UNCHANGED <<aborted, dev, buffers, accels, queue, images, shaders, app, pipeline,
                 sbt, lastAdd>>

\* glfwPollEvents while the window is open
run_pollEvents ==
  /\ At("run", "loop")
  /\ UNCHANGED vars

\* the window was closed: glfwDestroyWindow, glfwTerminate
run_close ==
  /\ At("run", "loop")
  /\ app' = [app EXCEPT !.window = FALSE]
  /\ Return
  /\ UNCHANGED <<aborted, dev, buffers, accels, queue, images, shaders, pipeline, sbt, lastAdd>>

\* instance, device, queue, command pool and buffer, swapchain and its images
initVulkan_setup ==
  /\ At("initVulkan", "setup")
  /\ app' = [app EXCEPT !.device = TRUE, !.commandPool = TRUE, !.commandBuffer = TRUE,
                        !.swapchain = TRUE]
  /\ images' = [i \in 1..dev.imageCount |-> [layout |-> "eUndefined", view |-> FALSE]]
  /\ Goto("calls")
  /\ UNCHANGED <<aborted, dev, buffers, accels, queue, shaders, pipeline, sbt, lastAdd>>

\* the next of the calls createSwapchainImageViews() .. createShaderBindingTable()
initVulkan_call ==
  /\ At("initVulkan", "calls")
  /\ Top.l.next <= Len(InitVulkanCalls)
  /\ LET fn == InitVulkanCalls[Top.l.next]
     IN  Call("calls", [next |-> Top.l.next + 1], Frame(fn, Entry(fn), None, Locals(fn)))
  /\ UNCHANGED <<aborted, dev, buffers, accels, queue, images, shaders, app, pipeline,
                 sbt, lastAdd>>

initVulkan_return ==
  /\ At("initVulkan", "calls")
  /\ Top.l.next > Len(InitVulkanCalls)
  /\ Return
  /\ UNCHANGED <<aborted, dev, buffers, accels, queue, images, shaders, app, pipeline,
                 sbt, lastAdd>>

\* one image view per swapchain image
createSwapchainImageViews_views ==
  /\ At("createSwapchainImageViews", "views")
  /\ images' = [i \in DOMAIN images |-> [images[i] EXCEPT !.view = TRUE]]
  /\ Goto("transition")
  /\ UNCHANGED <<aborted, dev, buffers, accels, queue, shaders, app, pipeline, sbt, lastAdd>>

\* oneTimeSubmit of a layout transition for every image
createSwapchainImageViews_transition ==
  /\ At("createSwapchainImageViews", "transition")
  /\ Call("return", Top.l,
          oneTimeSubmit("swapchainImages",
            [i \in DOMAIN images |->
               [op |-> "setImageLayout", image |-> i, old |-> "eUndefined",
                new |-> "ePresentSrcKHR"]]))
  /\ UNCHANGED <<aborted, dev, buffers, accels, queue, images, shaders, app, pipeline,
                 sbt, lastAdd>>

createSwapchainImageViews_return ==
  /\ At("createSwapchainImageViews", "return")
  /\ Return
  /\ UNCHANGED <<aborted, dev, buffers, accels, queue, images, shaders, app, pipeline,
                 sbt, lastAdd>>

----------------------------------------------------------------------------
(* createBottomLevelAS and createTopLevelAS *)

BuildInputUsage == {"eAccelerationStructureBuildInputReadOnlyKHR", DeviceAddressUsage}
HostMemory == {"eHostVisible", "eHostCoherent"}
Triangles(vertexData, indexData) ==
  [geometryType |-> "eTriangles", vertexData |-> vertexData, indexData |-> indexData,
   instanceData |-> 0, maxVertex |-> VertexCount, vertexStride |-> SizeofVertex,
   flags |-> {"eOpaque"}]
Instances(instanceData) ==
  [geometryType |-> "eInstances", vertexData |-> 0, indexData |-> 0,
   instanceData |-> instanceData, maxVertex |-> 0, vertexStride |-> 0,
   flags |-> {"eOpaque"}]

\* Buffer vertexBuffer; Buffer indexBuffer; vertexBuffer.init(...)
createBottomLevelAS_vertexBuffer ==
  /\ At("createBottomLevelAS", "vertexBuffer")
  /\ buffers' = [buffers EXCEPT !["vertexBuffer"] = EmptyBuffer("live"),
                                !["indexBuffer"] = EmptyBuffer("live")]
  /\ Call("indexBuffer", Top.l,
          Buffer_init("vertexBuffer", VertexCount * SizeofVertex, BuildInputUsage,
                      HostMemory, Ptr(vertices, 0)))
  /\ UNCHANGED <<aborted, dev, accels, queue, images, shaders, app, pipeline, sbt, lastAdd>>

\* indexBuffer.init(...)
createBottomLevelAS_indexBuffer ==
  /\ At("createBottomLevelAS", "indexBuffer")
  /\ Call("build", Top.l,
          Buffer_init("indexBuffer", IndexCount * SizeofUint32, BuildInputUsage,
                      HostMemory, Ptr(indices, 0)))
  /\ UNCHANGED <<aborted, dev, buffers, accels, queue, images, shaders, app, pipeline,
                 sbt, lastAdd>>

\* the triangle geometry and bottomAccel.init(...)
createBottomLevelAS_build ==
  /\ At("createBottomLevelAS", "build")
  /\ Call("return", Top.l,
          AccelStruct_init("bottomAccel", "eBottomLevel",
                           Triangles(buffers["vertexBuffer"].address,
                                     buffers["indexBuffer"].address),
                           IndexCount \div 3))
  /\ UNCHANGED <<aborted, dev, buffers, accels, queue, images, shaders, app, pipeline,
                 sbt, lastAdd>>

\* vertexBuffer and indexBuffer go out of scope
createBottomLevelAS_return ==
  /\ At("createBottomLevelAS", "return")
  /\ buffers' = [buffers EXCEPT !["vertexBuffer"].scope = "destroyed",
                                !["indexBuffer"].scope = "destroyed"]
  /\ Return
  /\ UNCHANGED <<aborted, dev, accels, queue, images, shaders, app, pipeline, sbt, lastAdd>>

\* accelInstance, referring to bottomAccel.buffer.address
createTopLevelAS_instance ==
  /\ At("createTopLevelAS", "instance")
  /\ stack' = Moved("instanceBuffer",
                    [accelInstance |-> AccelInstance(buffers["bottomAccel.buffer"].address)])
  /\ UNCHANGED <<aborted, dev, buffers, accels, queue, images, shaders, app, pipeline,
                 sbt, lastAdd>>

\* Buffer instanceBuffer; instanceBuffer.init(..., &accelInstance)
createTopLevelAS_instanceBuffer ==
  /\ At("createTopLevelAS", "instanceBuffer")
  /\ buffers' = [buffers EXCEPT !["instanceBuffer"] = EmptyBuffer("live")]
  /\ Call("build", Top.l,
          Buffer_init("instanceBuffer", SizeofInstance, BuildInputUsage, HostMemory,
                      Ptr(Top.l.accelInstance, 0)))
  /\ UNCHANGED <<aborted, dev, accels, queue, images, shaders, app, pipeline, sbt, lastAdd>>

\* the instances geometry and topAccel.init(...)
createTopLevelAS_build ==
  /\ At("createTopLevelAS", "build")
  /\ Call("return", Top.l,
          AccelStruct_init("topAccel", "eTopLevel",
                           Instances(buffers["instanceBuffer"].address), 1))
  /\ UNCHANGED <<aborted, dev, buffers, accels, queue, images, shaders, app, pipeline,
                 sbt, lastAdd>>

\* instanceBuffer goes out of scope
createTopLevelAS_return ==
  /\ At("createTopLevelAS", "return")
  /\ buffers' = [buffers EXCEPT !["instanceBuffer"].scope = "destroyed"]
  /\ Return
  /\ UNCHANGED <<aborted, dev, accels, queue, images, shaders, app, pipeline, sbt, lastAdd>>

----------------------------------------------------------------------------
(* Shader groups *)

ShaderStages ==
  {"eRaygenKHR", "eMissKHR", "eClosestHitKHR", "eAnyHitKHR", "eIntersectionKHR",
   "eCallableKHR"}

\* addShader without the four resets
addShader_reset_none(group) == group
\* the four setXxxShader(VK_SHADER_UNUSED_KHR) calls of addShader
addShader_reset(group) ==
  [group EXCEPT !.generalShader = ShaderUnused, !.closestHitShader = ShaderUnused,
                !.anyHitShader = ShaderUnused, !.intersectionShader = ShaderUnused]
\* the switch (stage) of addShader
addShader_switch(group, shaderIndex, stage) ==
  CASE stage \in {"eRaygenKHR", "eMissKHR"} ->
         [group EXCEPT !.type = "eGeneral", !.generalShader = shaderIndex]
    [] stage = "eClosestHitKHR" ->
         [group EXCEPT !.type = "eTrianglesHitGroup", !.closestHitShader = shaderIndex]
    [] OTHER -> group
\* addShader(shaderIndex, groupIndex, filename, stage) on the three vectors
\* (indices from 0, as in the source)
addShader(sh, shaderIndex, groupIndex, filename, stage) ==
  [shaderModules |-> [sh.shaderModules EXCEPT ![shaderIndex + 1] = filename],
   shaderStages  |-> [sh.shaderStages EXCEPT ![shaderIndex + 1] =
                        [stage |-> stage, module |-> filename, pName |-> "main"]],
   shaderGroups  |-> [sh.shaderGroups EXCEPT ![groupIndex + 1] =
                        addShader_switch(addShader_reset(@), shaderIndex, stage)]]

\* the three calls of prepareShaders
PrepareShadersCalls ==
  << [shaderIndex |-> 0, groupIndex |-> 0, filename |-> "raygen.rgen.spv",
      stage |-> "eRaygenKHR"],
     [shaderIndex |-> 1, groupIndex |-> 1, filename |-> "miss.rmiss.spv",
      stage |-> "eMissKHR"],
     [shaderIndex |-> 2, groupIndex |-> 2, filename |-> "closesthit.rchit.spv",
      stage |-> "eClosestHitKHR"] >>
ShaderCount == 3
NoAdd == [shaderIndex |-> ShaderUnused, groupIndex |-> ShaderUnused, stage |-> "none"]

\* shaderStages.resize(3); shaderModules.resize(3); shaderGroups.resize(3)
prepareShaders_resize ==
  /\ At("prepareShaders", "resize")
  /\ shaders' = [shaderStages  |-> [i \in 1..ShaderCount |-> EmptyStage],
                 shaderModules |-> [i \in 1..ShaderCount |-> "none"],
                 shaderGroups  |-> [i \in 1..ShaderCount |-> EmptyGroup]]
  /\ Goto("addShader")
  /\ UNCHANGED <<aborted, dev, buffers, accels, queue, images, app, pipeline, sbt, lastAdd>>

\* the next addShader(...) call
prepareShaders_addShader ==
  /\ At("prepareShaders", "addShader")
  /\ Top.l.next <= Len(PrepareShadersCalls)
  /\ LET c == PrepareShadersCalls[Top.l.next]
     IN  /\ shaders' = addShader(shaders, c.shaderIndex, c.groupIndex, c.filename, c.stage)
         /\ lastAdd' = [shaderIndex |-> c.shaderIndex, groupIndex |-> c.groupIndex,
                        stage |-> c.stage]
  /\ stack' = Moved("addShader", [next |-> Top.l.next + 1])
  /\ UNCHANGED <<aborted, dev, buffers, accels, queue, images, app, pipeline, sbt>>

prepareShaders_return ==
  /\ At("prepareShaders", "addShader")
  /\ Top.l.next > Len(PrepareShadersCalls)
  /\ Return
  /\ UNCHANGED <<aborted, dev, buffers, accels, queue, images, shaders, app, pipeline,
                 sbt, lastAdd>>

\* the three resize(3) calls, ahead of the calls of addShader on its own
addShader_resized ==
  /\ At("addShader", "body")
  /\ Top.l.next = 0
  /\ shaders' = [shaderStages  |-> [i \in 1..ShaderCount |-> EmptyStage],
                 shaderModules |-> [i \in 1..ShaderCount |-> "none"],
                 shaderGroups  |-> [i \in 1..ShaderCount |-> EmptyGroup]]
  /\ stack' = Moved("body", [next |-> 1])
  /\ UNCHANGED <<aborted, dev, buffers, accels, queue, images, app, pipeline, sbt, lastAdd>>

\* addShader called on its own, with any arguments, on resized vectors
addShader_any ==
  /\ At("addShader", "body")
  /\ Top.l.next \in 1..MaxAddShaderCalls
  /\ \E shaderIndex \in 0..(ShaderCount - 1), groupIndex \in 0..(ShaderCount - 1),
        stage \in ShaderStages :
       /\ shaders' = addShader(shaders, shaderIndex, groupIndex, "shader.spv", stage)
       /\ lastAdd' = [shaderIndex |-> shaderIndex, groupIndex |-> groupIndex,
                      stage |-> stage]
  /\ stack' = Moved("body", [next |-> Top.l.next + 1])
  /\ UNCHANGED <<aborted, dev, buffers, accels, queue, images, app, pipeline, sbt>>

----------------------------------------------------------------------------
(* Descriptors and the ray-tracing pipeline *)

createDescriptorPool_body ==
  /\ At("createDescriptorPool", "body")
  /\ app' = [app EXCEPT !.descPool = TRUE]
  /\ Return
  /\ UNCHANGED <<aborted, dev, buffers, accels, queue, images, shaders, pipeline, sbt, lastAdd>>

createDescSetLayout_body ==
  /\ At("createDescSetLayout", "body")
  /\ app' = [app EXCEPT !.descSetLayout = TRUE]
  /\ Return
  /\ UNCHANGED <<aborted, dev, buffers, accels, queue, images, shaders, pipeline, sbt, lastAdd>>

createDescriptorSet_body ==
  /\ At("createDescriptorSet", "body")
  /\ app' = [app EXCEPT !.descSet = TRUE]
  /\ Return
  /\ UNCHANGED <<aborted, dev, buffers, accels, queue, images, shaders, pipeline, sbt, lastAdd>>

\* a check that lets every result pass
Failed_never(result) == FALSE
\* result.result != vk::Result::eSuccess
Failed(result) == result # "eSuccess"

\* createPipelineLayoutUnique
createRayTracingPipeline_layout ==
  /\ At("createRayTracingPipeline", "layout")
  /\ app' = [app EXCEPT !.pipelineLayout = TRUE]
  /\ Goto("create")
  /\ UNCHANGED <<aborted, dev, buffers, accels, queue, images, shaders, pipeline, sbt, lastAdd>>

\* createRayTracingPipelineKHRUnique: the device answers with a result
createRayTracingPipeline_create ==
  /\ At("createRayTracingPipeline", "create")
  /\ \E r \in Results : stack' = Moved("check", [result |-> r])
  /\ UNCHANGED <<aborted, dev, buffers, accels, queue, images, shaders, app, pipeline,
                 sbt, lastAdd>>

\* std::abort() on a failed creation
createRayTracingPipeline_abort ==
  /\ At("createRayTracingPipeline", "check")
  /\ Failed(Top.l.result)
  /\ aborted' = TRUE
  /\ UNCHANGED <<stack, dev, buffers, accels, queue, images, shaders, app, pipeline,
                 sbt, lastAdd>>

\* pipeline = std::move(result.value)
createRayTracingPipeline_return ==
  /\ At("createRayTracingPipeline", "check")
  /\ ~Failed(Top.l.result)
  /\ pipeline' = [handle |-> TRUE, result |-> Top.l.result,
                  groups |-> shaders.shaderGroups]
  /\ Return
  /\ UNCHANGED <<aborted, dev, buffers, accels, queue, images, shaders, app, sbt, lastAdd>>

----------------------------------------------------------------------------
(* The shader binding table *)

\* vkutils::getAlignedSize on uint32_t: ((size + align - 1) / align) * align
getAlignedSize(size, align) ==
  U32Mul(U32Div(U32Sub(U32Add(size, align), U32One), align), align)

\* the aligned size computed with the two arguments exchanged
HandleSizeAligned_swapped(rtProperties) ==
  getAlignedSize(rtProperties.shaderGroupHandleAlignment,
                 rtProperties.shaderGroupHandleSize)
\* handleSizeAligned = vkutils::getAlignedSize(handleSize, handleAlignment)
HandleSizeAligned(rtProperties) ==
  getAlignedSize(rtProperties.shaderGroupHandleSize,
                 rtProperties.shaderGroupHandleAlignment)

SbtBuffers == <<"raygenSBT", "missSBT", "hitSBT">>
SbtLabels == <<"raygen", "miss", "hit">>
SbtBufferUsage == {"eShaderBindingTableKHR", "eTransferSrc", DeviceAddressUsage}
\* the size passed to raygenSBT.init, missSBT.init and hitSBT.init
SbtBufferSize(handleSize, handleSizeAligned) == ToNat(handleSize)
\* the slices taken at a stride of the raw handle size
SbtDataOffset_rawStride(i, handleSize, handleSizeAligned) ==
  ToNat(U32Mul(U32(i), handleSize))
\* shaderHandleStorage.data() + i * handleSizeAligned, as an offset
SbtDataOffset(i, handleSize, handleSizeAligned) == ToNat(U32Mul(U32(i), handleSizeAligned))

\* getRayTracingProps and the aligned handle size; the device reports one of props
createShaderBindingTable_props(props) ==
  /\ At("createShaderBindingTable", "props")
  /\ \E rtProperties \in props :
       /\ sbt' = [sbt EXCEPT !.handleSizeAligned = HandleSizeAligned(rtProperties)]
       /\ stack' = Moved("sizes",
                         [Top.l EXCEPT !.handleSize = rtProperties.shaderGroupHandleSize,
                                       !.handleAlignment =
                                          rtProperties.shaderGroupHandleAlignment])
  /\ UNCHANGED <<aborted, dev, buffers, accels, queue, images, shaders, app, pipeline, lastAdd>>

\* groupCount and sbtSize
createShaderBindingTable_sizes ==
  /\ At("createShaderBindingTable", "sizes")
  /\ LET groupCount == U32(Len(shaders.shaderGroups))
     IN  stack' = Moved("query",
                        [Top.l EXCEPT !.groupCount = groupCount,
                                      !.sbtSize = U32Mul(groupCount, sbt.handleSizeAligned)])
  /\ UNCHANGED <<aborted, dev, buffers, accels, queue, images, shaders, app, pipeline,
                 sbt, lastAdd>>

\* std::vector<uint8_t> shaderHandleStorage(sbtSize) and
\* getRayTracingShaderGroupHandlesKHR(*pipeline, 0, groupCount, sbtSize, data)
createShaderBindingTable_query ==
  /\ At("createShaderBindingTable", "query")
  /\ LET zeroed == [k \in 1..ToNat(Top.l.sbtSize) |-> 0]
         groupCount == ToNat(Top.l.groupCount)
     IN  \E r \in Results :
           stack' = Moved("check",
             [Top.l EXCEPT
                !.result = r,
                !.query = [firstGroup |-> 0, groupCount |-> groupCount,
                           dataSize |-> ToNat(Top.l.sbtSize)],
                !.shaderHandleStorage =
                   IF r = "eSuccess"
                   THEN WriteGroupHandles(zeroed, 0, groupCount, ToNat(Top.l.handleSize))
                   ELSE zeroed])
  /\ UNCHANGED <<aborted, dev, buffers, accels, queue, images, shaders, app, pipeline,
                 sbt, lastAdd>>

\* std::abort() on a failed query
createShaderBindingTable_abort ==
  /\ At("createShaderBindingTable", "check")
  /\ Failed(Top.l.result)
  /\ aborted' = TRUE
  /\ UNCHANGED <<stack, dev, buffers, accels, queue, images, shaders, app, pipeline,
                 sbt, lastAdd>>

createShaderBindingTable_checked ==
  /\ At("createShaderBindingTable", "check")
  /\ ~Failed(Top.l.result)
  /\ Goto(SbtLabels[1])
  /\ UNCHANGED <<aborted, dev, buffers, accels, queue, images, shaders, app, pipeline,
                 sbt, lastAdd>>

\* raygenSBT.init, missSBT.init, hitSBT.init (i = 1, 2, 3)
createShaderBindingTable_init ==
  /\ \E i \in DOMAIN SbtBuffers :
       /\ At("createShaderBindingTable", SbtLabels[i])
       /\ Call(IF i < Len(SbtLabels) THEN SbtLabels[i + 1] ELSE "return", Top.l,
               Buffer_init(SbtBuffers[i],
                           SbtBufferSize(Top.l.handleSize, sbt.handleSizeAligned),
                           SbtBufferUsage, HostMemory,
                           Ptr(Top.l.shaderHandleStorage,
                               SbtDataOffset(i - 1, Top.l.handleSize,
                                             sbt.handleSizeAligned))))
  /\ UNCHANGED <<aborted, dev, buffers, accels, queue, images, shaders, app, pipeline,
                 sbt, lastAdd>>

createShaderBindingTable_return ==
  /\ At("createShaderBindingTable", "return")
  /\ Return
  /\ UNCHANGED <<aborted, dev, buffers, accels, queue, images, shaders, app, pipeline,
                 sbt, lastAdd>>

----------------------------------------------------------------------------
(* The program *)

Devices ==
  { [memGranule |-> g, nextAddress |-> 256 * g, imageCount |-> n]
      : g \in MemGranules, n \in 1..MaxImages }

\* the state every specification starts from, but for the stack and the device
Constructed ==
  /\ aborted = FALSE
  /\ buffers = [b \in BufferNames |->
                  EmptyBuffer(IF b \in MemberBuffers THEN "live" ELSE "none")]
  /\ accels = [o \in AccelNames |-> EmptyAccel]
  /\ queue = [pending |-> <<>>, completed |-> <<>>]
  /\ images = <<>>
  /\ shaders = [shaderStages |-> <<>>, shaderModules |-> <<>>, shaderGroups |-> <<>>]
  /\ app = [window |-> FALSE, device |-> FALSE, commandPool |-> FALSE,
            commandBuffer |-> FALSE, swapchain |-> FALSE, descPool |-> FALSE,
            descSetLayout |-> FALSE, descSet |-> FALSE, pipelineLayout |-> FALSE]
  /\ pipeline = [handle |-> FALSE, result |-> "none", groups |-> <<>>]
  /\ sbt = [handleSizeAligned |-> U32Zero]
  /\ lastAdd = NoAdd

\* Application app; app.run()
Init ==
  /\ Constructed
  /\ dev \in Devices
  /\ stack = << Frame("run", "initWindow", None, None) >>

Next ==
  \/ run_initWindow
  \/ run_initVulkan
  \/ run_pollEvents
  \/ run_close
  \/ initVulkan_setup
  \/ initVulkan_call
  \/ initVulkan_return
  \/ createSwapchainImageViews_views
  \/ createSwapchainImageViews_transition
  \/ createSwapchainImageViews_return
  \/ oneTimeSubmit_record
  \/ oneTimeSubmit_submit
  \/ oneTimeSubmit_waitIdle
  \/ Buffer_init_create
  \/ Buffer_init_allocate
  \/ Buffer_init_bind
  \/ Buffer_init_map
  \/ Buffer_init_memcpy
  \/ Buffer_init_unmap
  \/ Buffer_init_address
  \/ AccelStruct_init_sizes
  \/ AccelStruct_init_storage
  \/ AccelStruct_init_createAS
  \/ AccelStruct_init_scratch
  \/ AccelStruct_init_build
  \/ AccelStruct_init_address
  \/ AccelStruct_init_return
  \/ createBottomLevelAS_vertexBuffer
  \/ createBottomLevelAS_indexBuffer
  \/ createBottomLevelAS_build
  \/ createBottomLevelAS_return
  \/ createTopLevelAS_instance
  \/ createTopLevelAS_instanceBuffer
  \/ createTopLevelAS_build
  \/ createTopLevelAS_return
  \/ prepareShaders_resize
  \/ prepareShaders_addShader
  \/ prepareShaders_return
  \/ createDescriptorPool_body
  \/ createDescSetLayout_body
  \/ createDescriptorSet_body
  \/ createRayTracingPipeline_layout
  \/ createRayTracingPipeline_create
  \/ createRayTracingPipeline_abort
  \/ createRayTracingPipeline_return
  \/ createShaderBindingTable_props(DeviceRtProps)
  \/ createShaderBindingTable_sizes
  \/ createShaderBindingTable_query
  \/ createShaderBindingTable_abort
  \/ createShaderBindingTable_checked
  \/ createShaderBindingTable_init
  \/ createShaderBindingTable_return

Spec == Init /\ [][Next]_vars

\* The arithmetic of the aligned handle size on its own: the first block of
\* createShaderBindingTable, on devices that report sizes and alignments next
\* to both ends of the 32-bit range
EdgeValues ==
  { U32(k) : k \in 1..MaxEdge } \cup { U32(32), U32(64) }
    \cup { U32Sub(<<Base \div 2, 0>>, U32(k)) : k \in 0..MaxEdge }
    \cup { U32Sub(U32Zero, U32(k)) : k \in 1..MaxEdge }
EdgeRtProps ==
  { [shaderGroupHandleSize |-> h, shaderGroupHandleAlignment |-> a]
      : h \in EdgeValues, a \in EdgeValues }
InitAlign ==
  /\ Constructed
  /\ dev \in Devices
  /\ stack = << Frame("createShaderBindingTable", "props", None,
                      Locals("createShaderBindingTable")) >>
NextAlign == createShaderBindingTable_props(EdgeRtProps)
SpecAlign == InitAlign /\ [][NextAlign]_vars

\* addShader on its own: prepareShaders as written, or calls of addShader
\* with any indices and any stage on vectors resized as prepareShaders does
InitAddShader ==
  /\ Constructed
  /\ dev \in Devices
  /\ stack \in { << Frame("prepareShaders", "resize", None, Locals("prepareShaders")) >>,
                 << Frame("addShader", "body", None, [next |-> 0]) >> }
NextAddShader ==
  \/ prepareShaders_resize
  \/ prepareShaders_addShader
  \/ prepareShaders_return
  \/ addShader_resized
  \/ addShader_any
SpecAddShader == InitAddShader /\ [][NextAddShader]_vars

\* Buffer::init on its own as well as in the program: a call on a member
\* Buffer with any size up to MaxBufferSize, each usage the program knows,
\* device-local or host-visible memory, and data (at the start of or inside
\* a host array) or none; data needs memory the host can map
BufferInitCalls ==
  { Buffer_init("raygenSBT", c.size, c.usage, c.memoryProperty, c.data) :
      c \in { x \in [size : 1..MaxBufferSize,
                      usage : {{"eAccelerationStructureStorageKHR"},
                               {"eStorageBuffer", DeviceAddressUsage},
                               BuildInputUsage, SbtBufferUsage},
                      memoryProperty : {{"eDeviceLocal"}, HostMemory},
                      data : {NullPtr, Ptr(vertices, 0), Ptr(vertices, SizeofVertex)}] :
                 x.data.null \/ "eHostVisible" \in x.memoryProperty } }
InitBuffer ==
  /\ Constructed
  /\ dev \in Devices
  /\ stack \in { << Frame("run", "initWindow", None, None) >> }
                 \cup { << call >> : call \in BufferInitCalls }
SpecBuffer == InitBuffer /\ [][Next]_vars

----------------------------------------------------------------------------
(* Properties *)

\* the frames of the stack that run function fn
Frames(fn) == { i \in DOMAIN stack : stack[i].fn = fn }
\* obj.init(...) of struct Buffer has been called and has returned
Inited(b) == buffers[b].buffer /\ ~Running("Buffer::init", b)
\* the submissions, pending or completed, that build structure o
BuildsOf(subs, o) ==
  { k \in DOMAIN subs :
      \E j \in DOMAIN subs[k].cmds :
        subs[k].cmds[j].op = "buildAccelerationStructures" /\ subs[k].cmds[j].dst = o }

\* the bottom-level structure is built and bottomAccel.buffer.address holds
\* the address the device gave it
BottomReady ==
  /\ accels["bottomAccel"].built
  /\ accels["bottomAccel"].deviceAddress # 0
  /\ buffers["bottomAccel.buffer"].address = accels["bottomAccel"].deviceAddress

\* C1: the top-level build starts only after the bottom-level build has
\* completed and its address is stored: when the instance record is filled
\* in, while topAccel.init runs and when the top-level build is submitted,
\* bottomAccel.buffer.address is non-zero, is the address of the built
\* bottom-level structure, and is the reference of the instance record.
C1_TopAfterBottom ==
  /\ \A i \in Frames("createTopLevelAS") :
       stack[i].l.accelInstance # <<>> =>
         /\ BottomReady
         /\ InstanceReference(stack[i].l.accelInstance) = accels["bottomAccel"].deviceAddress
  /\ Running("AccelStruct::init", "topAccel") => BottomReady
  /\ BuildsOf(queue.pending, "topAccel") # {} =>
       /\ BottomReady
       /\ InstanceReference(buffers["instanceBuffer"].contents)
            = accels["bottomAccel"].deviceAddress
C1_Witness ==
  /\ BuildsOf(queue.pending, "topAccel") # {}
  /\ BottomReady
  /\ InstanceReference(buffers["instanceBuffer"].contents) # 0

\* AccelStruct::init of o has stored the structure's address in its buffer
AddressStored(o) ==
  /\ accels[o].accel
  /\ \A i \in Frames("AccelStruct::init") : stack[i].a.obj = o => stack[i].pc = "return"

\* C2 (as stated): every initialised Buffer, the backing buffers of the
\* AccelStructs included, has a non-zero address iff it was created with
\* eShaderDeviceAddress usage.
C2_AddressIffUsage ==
  \A b \in BufferNames :
    (buffers[b].scope = "live" /\ Inited(b)) =>
      (buffers[b].address # 0 <=> DeviceAddressUsage \in buffers[b].usage)
\* C2 (amended): that holds of every initialised Buffer but the backing
\* buffer of an AccelStruct, which is created without that usage: its address
\* is zero until AccelStruct::init stores the structure's address in it, and
\* is that non-zero address from then on.
C2_AddressIffUsageOrStructure ==
  \A b \in BufferNames :
    (buffers[b].scope = "live" /\ Inited(b)) =>
      IF \E o \in AccelNames : b = StorageOf(o) /\ AddressStored(o)
      THEN \A o \in AccelNames :
             b = StorageOf(o) =>
               /\ buffers[b].address = accels[o].deviceAddress
               /\ buffers[b].address # 0
               /\ DeviceAddressUsage \notin buffers[b].usage
      ELSE buffers[b].address # 0 <=> DeviceAddressUsage \in buffers[b].usage
C2_Witness ==
  /\ Inited("bottomAccel.buffer") /\ AddressStored("bottomAccel")
  /\ buffers["bottomAccel.buffer"].address # 0
  /\ DeviceAddressUsage \notin buffers["bottomAccel.buffer"].usage
  /\ Inited("topAccel.buffer") /\ ~AddressStored("topAccel")
  /\ buffers["topAccel.buffer"].address = 0
  /\ Inited("instanceBuffer") /\ buffers["instanceBuffer"].address # 0

\* C3 (as stated): each of the three SBT buffers is created with a size of
\* exactly handleSizeAligned, for every handle size and alignment.
C3_SbtBufferSizeIsAligned ==
  \A i \in DOMAIN SbtBuffers :
    Inited(SbtBuffers[i]) => buffers[SbtBuffers[i]].size = ToNat(sbt.handleSizeAligned)

\* C4: the handles are queried in one call for all groups from group 0 into
\* groupCount * handleSizeAligned bytes, and the buffer of role i (raygen 0,
\* miss 1, hit 2) holds the handleSize bytes of that blob that start at byte
\* i * handleSizeAligned.
C4_SbtSlices ==
  \A f \in Frames("createShaderBindingTable") :
    LET l == stack[f].l
        aligned == ToNat(sbt.handleSizeAligned)
        h == ToNat(l.handleSize)
    IN  stack[f].pc \in {"check", "raygen", "miss", "hit", "return"} =>
          /\ l.query = [firstGroup |-> 0, groupCount |-> Len(shaders.shaderGroups),
                        dataSize |-> Len(shaders.shaderGroups) * aligned]
          /\ Len(l.shaderHandleStorage) = Len(shaders.shaderGroups) * aligned
          /\ \A i \in DOMAIN SbtBuffers :
               Inited(SbtBuffers[i]) =>
                 /\ Len(buffers[SbtBuffers[i]].contents) = h
                 /\ \A k \in 1..h :
                      buffers[SbtBuffers[i]].contents[k]
                        = l.shaderHandleStorage[(i - 1) * aligned + k]
C4_Witness ==
  \E f \in Frames("createShaderBindingTable") :
    /\ stack[f].pc = "return"
    /\ ToNat(stack[f].l.handleSize) > 1
    /\ ToNat(stack[f].l.handleSize) < ToNat(sbt.handleSizeAligned)
    /\ \A i \in DOMAIN SbtBuffers : Inited(SbtBuffers[i])
    /\ buffers["missSBT"].contents
         = SubSeq(stack[f].l.shaderHandleStorage, ToNat(sbt.handleSizeAligned) + 1,
                  ToNat(sbt.handleSizeAligned) + ToNat(stack[f].l.handleSize))

\* C5 (as stated): for every 32-bit handle size h > 0 and alignment a > 0,
\* handleSizeAligned is ((h + a - 1) / a) * a, a multiple of a that is at
\* least h and less than h + a.
C5_AlignedSizeInRange ==
  \A f \in Frames("createShaderBindingTable") :
    LET h == stack[f].l.handleSize
        a == stack[f].l.handleAlignment
        r == sbt.handleSizeAligned
    IN  stack[f].pc = "sizes" =>
          /\ U32Rem(r, a) = U32Zero
          /\ WLeq(h, r)
          /\ WLess(r, WAdd(h, a))
\* C5 (amended): that holds when h + a - 1 fits 32 bits, and the value is then
\* the least multiple of a that is at least h.
C5_AlignedSizeNoWrap ==
  \A f \in Frames("createShaderBindingTable") :
    LET h == stack[f].l.handleSize
        a == stack[f].l.handleAlignment
        r == sbt.handleSizeAligned
    IN  (stack[f].pc = "sizes" /\ WLeq(WAdd(h, a), <<Base, 0>>)) =>
            /\ U32Rem(r, a) = U32Zero
            /\ WLeq(h, r)
            /\ WLess(r, WAdd(h, a))
            /\ (h[1] = 0 /\ a[1] = 0) =>
                 ToNat(r) = ((ToNat(h) + ToNat(a) - 1) \div ToNat(a)) * ToNat(a)
C5_Witness ==
  \E f \in Frames("createShaderBindingTable") :
    /\ stack[f].pc = "sizes"
    /\ stack[f].l.handleSize = U32Sub(U32Zero, U32(3))
    /\ stack[f].l.handleAlignment = U32(2)
    /\ sbt.handleSizeAligned = U32Sub(U32Zero, U32(2))

\* the phase of an AccelStruct, read off what exists: the sizes have been
\* queried (Sized); the backing buffer, the structure handle and the scratch
\* buffer have been created (Allocated); the GPU has finished the build (Built)
Sized(o) == accels[o].sizes.queried
Allocated(o) ==
  /\ Sized(o)
  /\ Inited(StorageOf(o)) /\ buffers[StorageOf(o)].size = accels[o].sizes.as
  /\ accels[o].accel
  /\ Inited(ScratchOf(o)) /\ buffers[ScratchOf(o)].size = accels[o].sizes.scratch
Phase(o) ==
  IF Allocated(o) /\ accels[o].built THEN "Built"
  ELSE IF Allocated(o) THEN "Allocated"
  ELSE IF Sized(o) THEN "Sized"
  ELSE "Unbuilt"
PhaseSteps == { <<"Unbuilt", "Sized">>, <<"Sized", "Allocated">>, <<"Allocated", "Built">> }

\* C6: each AccelStruct goes through Unbuilt, Sized, Allocated, Built in
\* that order without skipping or repeating a phase; the build is submitted
\* in phase Allocated, the GPU has not built a structure before Built, and
\* the address is stored in buffer.address only in phase Built.
C6_PhaseOrder ==
  /\ [](\A o \in AccelNames :
          /\ buffers[StorageOf(o)].address # 0 => Phase(o) = "Built"
          /\ accels[o].built => Phase(o) = "Built"
          /\ BuildsOf(queue.pending, o) # {} => Phase(o) = "Allocated")
  /\ [][\A o \in AccelNames :
          Phase(o)' # Phase(o) => <<Phase(o), Phase(o)'>> \in PhaseSteps]_vars
C6_Witness ==
  /\ Phase("bottomAccel") = "Built"
  /\ buffers["bottomAccel.buffer"].address = accels["bottomAccel"].deviceAddress
  /\ buffers["bottomAccel.buffer"].address # 0
  /\ Phase("topAccel") = "Allocated"
  /\ BuildsOf(queue.pending, "topAccel") # {}

\* C7: a failed pipeline creation or a failed handle query ends the process
\* at once: the next step is the abort, nothing changes after it (no retry,
\* no return to the caller), and so the SBT is never built on a failed
\* pipeline and no SBT buffer is created from a failed query.
C7_FailuresFatal ==
  /\ [](/\ Frames("createShaderBindingTable") # {} =>
             pipeline.handle /\ pipeline.result = "eSuccess"
        /\ \A i \in DOMAIN SbtBuffers :
             buffers[SbtBuffers[i]].buffer =>
               /\ pipeline.handle /\ pipeline.result = "eSuccess"
               /\ \A f \in Frames("createShaderBindingTable") :
                    stack[f].l.result = "eSuccess")
  /\ [][/\ ~aborted
        /\ \A f \in Frames("createRayTracingPipeline") \cup Frames("createShaderBindingTable") :
             stack[f].pc = "check" /\ stack[f].l.result # "eSuccess"
               => aborted' /\ stack' = stack]_vars
C7_Witness ==
  /\ aborted
  /\ Top.fn = "createShaderBindingTable"
  /\ Top.l.result = "eErrorOutOfHostMemory"
  /\ pipeline.result = "eSuccess"
  /\ \A i \in DOMAIN SbtBuffers : ~buffers[SbtBuffers[i]].buffer

\* C8: all GPU work (the layout transitions and the two builds) is issued on
\* the one queue by oneTimeSubmit and has completed when the call returns:
\* at most one submission is pending, only while oneTimeSubmit waits for it,
\* and every effect of the GPU has its submission among the completed ones.
C8_OneSubmissionAtATime ==
  /\ Len(queue.pending) <= 1
  /\ queue.pending # <<>> => At("oneTimeSubmit", "waitIdle")
  /\ Frames("oneTimeSubmit") = {} => queue.pending = <<>>
  /\ \A o \in AccelNames : accels[o].built => BuildsOf(queue.completed, o) # {}
  /\ \A i \in DOMAIN images :
       images[i].layout = "ePresentSrcKHR" =>
         \E k \in DOMAIN queue.completed :
           \E j \in DOMAIN queue.completed[k].cmds :
             /\ queue.completed[k].cmds[j].op = "setImageLayout"
             /\ queue.completed[k].cmds[j].image = i
C8_Witness ==
  /\ Len(queue.pending) = 1
  /\ BuildsOf(queue.pending, "topAccel") # {}
  /\ Len(queue.completed) = 2
  /\ BuildsOf(queue.completed, "bottomAccel") # {}

\* exactly the slot of the group's type holds shaderIndex, the others are unused
GroupOk(g, shaderIndex) ==
  /\ g.type \in {"eGeneral", "eTrianglesHitGroup"}
  /\ g.anyHitShader = ShaderUnused /\ g.intersectionShader = ShaderUnused
  /\ g.type = "eGeneral" =>
       g.generalShader = shaderIndex /\ g.closestHitShader = ShaderUnused
  /\ g.type = "eTrianglesHitGroup" =>
       g.closestHitShader = shaderIndex /\ g.generalShader = ShaderUnused

\* C9 (as stated): after addShader(shaderIndex, groupIndex, _, stage), for
\* every stage value, the group has exactly the slot of its type set to
\* shaderIndex and the other slots unused.
C9_GroupSlotsAnyStage ==
  lastAdd # NoAdd => GroupOk(shaders.shaderGroups[lastAdd.groupIndex + 1], lastAdd.shaderIndex)
\* C9 (amended): that holds after a call with stage raygen, miss or
\* closest-hit, where the type is general for the first two and
\* triangles-hit-group for the third; these are the stages prepareShaders
\* passes, so all three groups satisfy it when prepareShaders returns.  For
\* any other stage the call leaves all four slots unused.
C9_GroupSlotsKnownStage ==
  /\ lastAdd # NoAdd =>
       LET g == shaders.shaderGroups[lastAdd.groupIndex + 1]
       IN  CASE lastAdd.stage \in {"eRaygenKHR", "eMissKHR"} ->
                  GroupOk(g, lastAdd.shaderIndex) /\ g.type = "eGeneral"
             [] lastAdd.stage = "eClosestHitKHR" ->
                  GroupOk(g, lastAdd.shaderIndex) /\ g.type = "eTrianglesHitGroup"
             [] OTHER ->
                  /\ g.generalShader = ShaderUnused /\ g.closestHitShader = ShaderUnused
                  /\ g.anyHitShader = ShaderUnused /\ g.intersectionShader = ShaderUnused
  /\ stack = <<>> =>
       \A i \in 1..ShaderCount : GroupOk(shaders.shaderGroups[i], i - 1)
C9_Witness ==
  /\ At("addShader", "body")
  /\ lastAdd = [shaderIndex |-> 2, groupIndex |-> 1, stage |-> "eClosestHitKHR"]
  /\ shaders.shaderGroups[2] =
       [type |-> "eTrianglesHitGroup", generalShader |-> ShaderUnused,
        closestHitShader |-> 2, anyHitShader |-> ShaderUnused,
        intersectionShader |-> ShaderUnused]
  /\ shaders.shaderGroups[1].type = "eGeneral"
  /\ shaders.shaderGroups[1].generalShader = 0

\* the bytes the program hands to the init call of a buffer that gets data
HostDataOf(b) ==
  CASE b = "vertexBuffer" -> vertices
    [] b = "indexBuffer"  -> indices
    [] OTHER              -> <<>>

\* C10: Buffer::init allocates at least as many bytes as the buffer has,
\* binds the memory at offset 0, copies exactly size bytes of the data, if
\* any, after the bind, and leaves the memory unmapped when it returns.
C10_BufferInit ==
  /\ \A b \in BufferNames :
       /\ buffers[b].buffer => buffers[b].size > 0
       /\ buffers[b].memory =>
            buffers[b].memSize >= buffers[b].size /\ buffers[b].memoryType # 0
       /\ buffers[b].bound => buffers[b].memory /\ buffers[b].bindOffset = 0
       /\ buffers[b].mapped => buffers[b].bound /\ buffers[b].mapSize = buffers[b].size
       /\ buffers[b].contents # <<>> => buffers[b].bound
       /\ Inited(b) =>
            /\ buffers[b].memory /\ buffers[b].bound /\ ~buffers[b].mapped
            /\ Len(buffers[b].contents) \in {0, buffers[b].size}
            /\ HostDataOf(b) # <<>> => buffers[b].contents = HostDataOf(b)
  /\ \A f \in Frames("Buffer::init") :
       LET b == buffers[stack[f].a.obj]
       IN  stack[f].pc = "address" =>
             /\ ~b.mapped
             /\ b.size = stack[f].a.size
             /\ b.contents = IF stack[f].a.data.null THEN <<>>
                             ELSE HostRead(stack[f].a.data, stack[f].a.size)
             /\ ~stack[f].a.data.null => Len(b.contents) = stack[f].a.size
C10_Witness ==
  /\ Inited("vertexBuffer") /\ buffers["vertexBuffer"].scope = "live"
  /\ buffers["vertexBuffer"].contents = vertices
  /\ buffers["vertexBuffer"].size = 36
  /\ buffers["vertexBuffer"].memSize = 48
  /\ buffers["vertexBuffer"].bound /\ ~buffers["vertexBuffer"].mapped
  /\ Inited("bottomAccel.buffer") /\ buffers["bottomAccel.buffer"].contents = <<>>

\* the build commands of the submissions subs
BuildCommands(subs) ==
  { c \in UNION { { subs[k].cmds[j] : j \in DOMAIN subs[k].cmds } : k \in DOMAIN subs } :
      c.op = "buildAccelerationStructures" }
\* the Buffer objects whose memory the build command c reads
InputBuffersOf(c) ==
  IF c.type = "eBottomLevel" THEN {"vertexBuffer", "indexBuffer"} ELSE {"instanceBuffer"}

\* C11: while a build is pending its scratch buffer and its input buffers
\* (vertex and index, or instance) are alive, and so they were when the GPU
\* finished it; the scratch buffer of a build is the local one of that
\* AccelStruct::init call, alive only while the call runs and destroyed once
\* it has returned, so the later build never uses the earlier one's.
C11_BuildBuffersAlive ==
  /\ \A c \in BuildCommands(queue.pending) :
       /\ \A x \in BuildInputs(c) : LiveAt(x) # {}
       /\ LiveAt(c.scratchData) = {ScratchOf(c.dst)}
       /\ Running("AccelStruct::init", c.dst)
       /\ \A b \in InputBuffersOf(c) :
            /\ buffers[b].scope = "live" /\ Inited(b)
            /\ buffers[b].address \in BuildInputs(c)
  /\ \A o \in AccelNames :
       /\ accels[o].built =>
            /\ accels[o].inputsLive
            /\ accels[o].scratchData = buffers[ScratchOf(o)].address
       /\ buffers[ScratchOf(o)].scope = "live" => Running("AccelStruct::init", o)
       /\ (buffers[ScratchOf(o)].buffer /\ ~Running("AccelStruct::init", o)) =>
            buffers[ScratchOf(o)].scope = "destroyed"
  /\ Running("AccelStruct::init", "topAccel") =>
       /\ buffers["bottomAccel.scratchBuffer"].scope = "destroyed"
       /\ accels["topAccel"].built =>
            accels["topAccel"].scratchData # accels["bottomAccel"].scratchData
C11_Witness ==
  /\ \E c \in BuildCommands(queue.pending) :
       /\ c.dst = "topAccel"
       /\ LiveAt(c.scratchData) = {"topAccel.scratchBuffer"}
       /\ LiveAt(c.geometry.instanceData) = {"instanceBuffer"}
  /\ accels["bottomAccel"].built /\ accels["bottomAccel"].inputsLive
  /\ buffers["bottomAccel.scratchBuffer"].scope = "destroyed"
  /\ buffers["vertexBuffer"].scope = "destroyed"

\* C12 (as stated): with the device writing the handle of group g at bytes
\* [g * h, (g + 1) * h) of the blob, the raygen, miss and hit buffers hold
\* exactly the handles of groups 0, 1 and 2, for every handle size h and
\* alignment a, also when a > h.
C12_SbtHoldsOwnHandles ==
  \A i \in DOMAIN SbtBuffers :
    Inited(SbtBuffers[i]) =>
      buffers[SbtBuffers[i]].contents
        = [k \in 1..buffers[SbtBuffers[i]].size |-> HandleByte(i - 1, k - 1)]

====
